---- MODULE Spec2Model ----
(***************************************************************************)
(* Geo-command marshalling core of valkey-glide-php                        *)
(* (src/valkey_glide_geo_common.c): the five argument builders and the     *)
(* generic dispatcher execute_geo_generic_command, with the heap of        *)
(* scratch blocks they allocate and free.                                  *)
(*                                                                         *)
(* A pointer is a heap index (1..Len(heap)) or NULL (0).  A heap block     *)
(* records its kind and how many times efree was applied to it.            *)
(* An optional field of the caller's record is <<>> (a NULL pointer) or    *)
(* <<v>> (a pointer to v).                                                 *)
(***************************************************************************)
EXTENDS Integers, Sequences, FiniteSets, TLC

VARIABLES
    pc,                 \* position inside execute_geo_generic_command
    is_in_batch_mode,   \* valkey_glide->is_in_batch_mode
    cmd_type,           \* enum RequestType cmd_type
    args,               \* geo_command_args_t* args (the caller's record)
    result_ptr,         \* void* result_ptr
    process_result,     \* geo_result_processor_t process_result
    heap,               \* blocks obtained from emalloc / the string converters
    arg_values,         \* uintptr_t* arg_values
    arg_lens,           \* unsigned long* arg_lens
    allocated_strings,  \* char** allocated_strings (the ledger array)
    ledger,             \* the entries written into the ledger array
    allocated_count,    \* int allocated_count
    arg_count,          \* int arg_count
    argv,               \* the slots written into arg_values / arg_lens
    out_written,        \* out-parameters the builder has stored through
    result,             \* CommandResult* result of execute_command
    success,            \* int success
    status,             \* int status (batch branch)
    ret,                \* value returned by the call
    buffered,           \* tuples handed to buffer_command_for_batch by this call
    events,             \* what the call has done so far, in order
    response,           \* CommandResponse* response handed to a processor
    search_data,        \* void* output: the WITH* flags block, or NULL
    search_data_frees,  \* efree calls a processor applied to search_data
    return_value        \* zval* return_value a processor fills in

vars == <<pc, is_in_batch_mode, cmd_type, args, result_ptr, process_result, heap,
          arg_values, arg_lens, allocated_strings, ledger, allocated_count,
          arg_count, argv, out_written, result, success, status, ret, buffered,
          events, response, search_data, search_data_frees, return_value>>

\* what a result processor reads and writes
procvars == <<response, search_data, search_data_frees, return_value>>

(***************************************************************************)
(* Bounds of the model                                                     *)
(***************************************************************************)
MaxMembers == 2      \* longest member list of a Members record
MaxGeoArgs == 4      \* most values (lon, lat, member, ...) of an Add record
MaxOomRun == 2       \* longest run of consecutive allocations that fail
MaxElems == 2        \* most elements of a response array

(***************************************************************************)
(* Program constants                                                       *)
(***************************************************************************)
NULL == 0
SearchMaxArgs == 15
SearchStoreMaxArgs == 16
SearchLedgerSlots == 10
MinGeoArgs == 3

None == <<>>
Some(v) == <<v>>
IsNull(opt) == Len(opt) = 0
Val(opt) == opt[1]

(***************************************************************************)
(* Heap                                                                    *)
(***************************************************************************)
Block(kind) == [kind |-> kind, frees |-> 0]

efree(h, p) == [h EXCEPT ![p].frees = @ + 1]

Live(h, p) == p \in DOMAIN h /\ h[p].frees = 0

BlocksOf(h, kind) == {p \in DOMAIN h : h[p].kind = kind}

\* free_allocated_strings(allocated_strings, allocated_count): efree of every
\* non-NULL entry among the first count entries of the ledger.
free_allocated_strings(h, led, count) ==
    [p \in DOMAIN h |->
        [h[p] EXCEPT !.frees =
            @ + Cardinality({i \in 1..count : i <= Len(led) /\ led[i] = p})]]

(***************************************************************************)
(* Builder context.  A builder runs on a record c holding the heap, the    *)
(* allocation attempts made so far in the call (n), the attempts that the  *)
(* allocator refuses (oom), and the caller's out-parameters.               *)
(***************************************************************************)
Ctx(h, n, oom, led) ==
    [heap |-> h, n |-> n, oom |-> oom, last |-> NULL,
     args_out |-> NULL, args_len_out |-> NULL,
     ledger |-> led, allocated_count |-> 0, argv |-> <<>>,
     written |-> {}, ret |-> 0, failed |-> FALSE]

\* One allocation attempt (emalloc, or the buffer of a string converter):
\* c.last is the new block, or NULL when the attempt is refused.
TryAlloc(c, kind) ==
    LET k == c.n + 1 IN
    IF k \in c.oom
    THEN [c EXCEPT !.n = k, !.last = NULL]
    ELSE [c EXCEPT !.n = k, !.heap = Append(@, Block(kind)),
                   !.last = Len(c.heap) + 1]

\* Argument slots: the text, the heap block holding it (NULL when the text is
\* not scratch memory) and who owns the bytes.
Borrowed(s) == [s |-> s, p |-> NULL, own |-> "caller"]
Literal(s) == [s |-> s, p |-> NULL, own |-> "static"]
Owned(s, p) == [s |-> s, p |-> p, own |-> "heap"]

Push(c, tok) == [c EXCEPT !.argv = Append(@, tok)]

\* (*allocated_strings)[(*allocated_count)++] = p
LedgerPut(c, p) ==
    [c EXCEPT !.ledger = Append(@, p), !.allocated_count = @ + 1,
              !.written = @ \cup {"allocated_strings", "allocated_count"}]

Digit == <<"0", "1", "2", "3", "4", "5", "6", "7", "8", "9">>

RECURSIVE NatToStr(_)
NatToStr(n) ==
    IF n < 10 THEN Digit[n + 1]
    ELSE NatToStr(n \div 10) \o Digit[(n % 10) + 1]

\* long_to_string / double_to_string: a freshly allocated decimal text, or
\* NULL when the buffer cannot be obtained.
long_to_string(c, value) ==
    LET c1 == TryAlloc(c, "string") IN
    [c |-> c1, ok |-> c1.last # NULL, tok |-> Owned(NatToStr(value), c1.last),
     need_free |-> TRUE]

double_to_string(c, value) ==
    LET c1 == TryAlloc(c, "string") IN
    [c |-> c1, ok |-> c1.last # NULL, tok |-> Owned(NatToStr(value), c1.last),
     need_free |-> TRUE]

\* zval_to_string_safe(z, &len, &need_free): a string zval is borrowed, a
\* numeric one is formatted into a fresh buffer, any other value (or a
\* refused buffer) yields NULL.
zval_to_string_safe(c, z) ==
    CASE z.t = "string" ->
           [c |-> c, ok |-> TRUE, tok |-> Borrowed(z.s), need_free |-> FALSE]
      [] z.t = "long" -> long_to_string(c, z.n)
      [] z.t = "double" -> double_to_string(c, z.n)
      [] OTHER ->
           [c |-> c, ok |-> FALSE, tok |-> Borrowed(""), need_free |-> FALSE]

\* *args_out = emalloc(..); *args_len_out = emalloc(..); and the check that
\* follows: when either is NULL the other is freed and the builder fails.
AllocArgArrays(c) ==
    LET c1 == TryAlloc(c, "arg_values")
        c2 == TryAlloc(c1, "arg_lens")
        c3 == [c2 EXCEPT !.args_out = c1.last, !.args_len_out = c2.last,
                         !.written = @ \cup {"args_out", "args_len_out"}]
    IN IF c3.args_out = NULL \/ c3.args_len_out = NULL
       THEN LET h1 == IF c3.args_out # NULL
                      THEN efree(c3.heap, c3.args_out) ELSE c3.heap
                h2 == IF c3.args_len_out # NULL
                      THEN efree(h1, c3.args_len_out) ELSE h1
            IN [c3 EXCEPT !.heap = h2, !.failed = TRUE, !.ret = 0]
       ELSE c3

\* Cleanup on error inside a builder: the ledgered strings, then both arrays.
BuilderCleanup(c) ==
    [c EXCEPT !.heap = efree(efree(free_allocated_strings(
                                       c.heap, c.ledger, c.allocated_count),
                                   c.args_out),
                             c.args_len_out),
              !.failed = TRUE, !.ret = 0]

\* the loop ledgering every converted value, need_free or not
RECURSIVE CoerceLoop_LedgerAll(_, _, _)
CoerceLoop_LedgerAll(c, items, i) ==
    IF i > Len(items) THEN c
    ELSE LET r == zval_to_string_safe(c, items[i]) IN
         IF ~r.ok THEN BuilderCleanup(r.c)
         ELSE CoerceLoop_LedgerAll(LedgerPut(Push(r.c, r.tok), r.tok.p),
                                   items, i + 1)

\* for (i = 0; i < count; i++) { zval_to_string_safe; slot i + 1; ledger }
RECURSIVE CoerceLoop(_, _, _)
CoerceLoop(c, items, i) ==
    IF i > Len(items) THEN c
    ELSE LET r == zval_to_string_safe(c, items[i]) IN
         IF ~r.ok THEN BuilderCleanup(r.c)
         ELSE LET c1 == Push(r.c, r.tok)
                  c2 == IF r.need_free THEN LedgerPut(c1, r.tok.p) ELSE c1
              IN CoerceLoop(c2, items, i + 1)

ResetCount(c) ==
    [c EXCEPT !.allocated_count = 0, !.written = @ \cup {"allocated_count"}]

Finish(c) == IF c.failed THEN c ELSE [c EXCEPT !.ret = Len(c.argv)]

\* prepare_geo_members_args returning the member count without the key slot
prepare_geo_members_args_CountOnly(a, c) ==
    IF IsNull(a) \/ IsNull(Val(a).key) \/ IsNull(Val(a).members)
       \/ Val(a).member_count <= 0
    THEN [c EXCEPT !.ret = 0]
    ELSE LET c1 == AllocArgArrays(ResetCount(c)) IN
         IF c1.failed THEN c1
         ELSE LET c2 == CoerceLoop(Push(c1, Borrowed(Val(Val(a).key))),
                                   Val(Val(a).members), 1)
              IN IF c2.failed THEN c2
                 ELSE [c2 EXCEPT !.ret = Val(a).member_count]

(***************************************************************************)
(* prepare_geo_members_args                                                *)
(***************************************************************************)
prepare_geo_members_args(a, c) ==
    IF IsNull(a) \/ IsNull(Val(a).key) \/ IsNull(Val(a).members)
       \/ Val(a).member_count <= 0
    THEN [c EXCEPT !.ret = 0]
    ELSE LET c1 == AllocArgArrays(ResetCount(c)) IN
         IF c1.failed THEN c1
         ELSE LET c2 == CoerceLoop(Push(c1, Borrowed(Val(Val(a).key))),
                                   Val(Val(a).members), 1)
              IN IF c2.failed THEN c2
                 ELSE [c2 EXCEPT !.ret = 1 + Val(a).member_count]

\* prepare_geo_dist_args dropping the optional unit
prepare_geo_dist_args_NoUnit(a, c) ==
    IF IsNull(a) \/ IsNull(Val(a).key) \/ IsNull(Val(a).src_member)
       \/ IsNull(Val(a).dst_member)
    THEN [c EXCEPT !.ret = 0]
    ELSE LET c1 == AllocArgArrays(c) IN
         IF c1.failed THEN c1
         ELSE LET c2 == Push(Push(Push(c1, Borrowed(Val(Val(a).key))),
                                  Borrowed(Val(Val(a).src_member))),
                             Borrowed(Val(Val(a).dst_member)))
              IN [c2 EXCEPT !.ret = 3]

(***************************************************************************)
(* prepare_geo_dist_args                                                   *)
(***************************************************************************)
prepare_geo_dist_args(a, c) ==
    IF IsNull(a) \/ IsNull(Val(a).key) \/ IsNull(Val(a).src_member)
       \/ IsNull(Val(a).dst_member)
    THEN [c EXCEPT !.ret = 0]
    ELSE LET c1 == AllocArgArrays(c) IN
         IF c1.failed THEN c1
         ELSE LET c2 == Push(Push(Push(c1, Borrowed(Val(Val(a).key))),
                                  Borrowed(Val(Val(a).src_member))),
                             Borrowed(Val(Val(a).dst_member)))
                  c3 == IF ~IsNull(Val(a).unit)
                        THEN Push(c2, Borrowed(Val(Val(a).unit))) ELSE c2
              IN [c3 EXCEPT !.ret = IF ~IsNull(Val(a).unit) THEN 4 ELSE 3]

\* prepare_geo_add_args without the "count divisible by 3" test
prepare_geo_add_args_NoTripletCheck(a, c) ==
    IF IsNull(a) \/ IsNull(Val(a).key) \/ IsNull(Val(a).geo_args)
       \/ Val(a).geo_args_count < MinGeoArgs
    THEN [c EXCEPT !.ret = 0]
    ELSE LET c1 == AllocArgArrays(ResetCount(c)) IN
         IF c1.failed THEN c1
         ELSE LET c2 == CoerceLoop(Push(c1, Borrowed(Val(Val(a).key))),
                                   Val(Val(a).geo_args), 1)
              IN IF c2.failed THEN c2
                 ELSE [c2 EXCEPT !.ret = 1 + Val(a).geo_args_count]

(***************************************************************************)
(* prepare_geo_add_args                                                    *)
(***************************************************************************)
prepare_geo_add_args(a, c) ==
    IF IsNull(a) \/ IsNull(Val(a).key) \/ IsNull(Val(a).geo_args)
       \/ Val(a).geo_args_count < MinGeoArgs
       \/ Val(a).geo_args_count % 3 # 0
    THEN [c EXCEPT !.ret = 0]
    ELSE LET c1 == AllocArgArrays(ResetCount(c)) IN
         IF c1.failed THEN c1
         ELSE LET c2 == CoerceLoop(Push(c1, Borrowed(Val(Val(a).key))),
                                   Val(Val(a).geo_args), 1)
              IN IF c2.failed THEN c2
                 ELSE [c2 EXCEPT !.ret = 1 + Val(a).geo_args_count]

(***************************************************************************)
(* prepare_geo_search_args / prepare_geo_search_store_args.  The FROM, BY, *)
(* COUNT and sort clauses are the same text in both builders.              *)
(***************************************************************************)
\* efree(*args_out); efree(*args_len_out); return 0;
FreeArraysOnly(c) ==
    [c EXCEPT !.heap = efree(efree(c.heap, c.args_out), c.args_len_out),
              !.failed = TRUE, !.ret = 0]

\* FROMMEMBER <member> | FROMLONLAT <lon> <lat>
FromClause(a, c) ==
    LET from == Val(a.from) IN
    IF from.t = "string"
    THEN Push(Push(c, Literal("FROMMEMBER")), Borrowed(from.s))
    ELSE IF from.t = "array" /\ Len(from.arr) >= 2
    THEN LET c1 == Push(c, Literal("FROMLONLAT"))
             lon == double_to_string(c1, from.arr[1])
         IN IF ~lon.ok THEN FreeArraysOnly(lon.c)
            ELSE LET c2 == LedgerPut(Push(lon.c, lon.tok), lon.tok.p)
                     lat == double_to_string(c2, from.arr[2])
                 IN IF ~lat.ok THEN BuilderCleanup(lat.c)
                    ELSE LedgerPut(Push(lat.c, lat.tok), lat.tok.p)
    ELSE c

\* BYRADIUS <radius> <unit>
ByRadiusClause(a, c) ==
    IF c.failed \/ IsNull(a.by_radius) THEN c
    ELSE LET c1 == Push(c, Literal("BYRADIUS"))
             radius == double_to_string(c1, Val(a.by_radius))
         IN IF ~radius.ok THEN BuilderCleanup(radius.c)
            ELSE Push(LedgerPut(Push(radius.c, radius.tok), radius.tok.p),
                      Borrowed(Val(a.unit)))

\* the WITH* tests in the order withdist, withcoord, withhash
WithClause_DistFirst(a, c) ==
    IF c.failed THEN c
    ELSE LET c1 == IF a.radius_opts.with_opts.withdist
                   THEN Push(c, Literal("WITHDIST")) ELSE c
             c2 == IF a.radius_opts.with_opts.withcoord
                   THEN Push(c1, Literal("WITHCOORD")) ELSE c1
         IN IF a.radius_opts.with_opts.withhash
            THEN Push(c2, Literal("WITHHASH")) ELSE c2

\* WITHCOORD, WITHDIST, WITHHASH
WithClause(a, c) ==
    IF c.failed THEN c
    ELSE LET c1 == IF a.radius_opts.with_opts.withcoord
                   THEN Push(c, Literal("WITHCOORD")) ELSE c
             c2 == IF a.radius_opts.with_opts.withdist
                   THEN Push(c1, Literal("WITHDIST")) ELSE c1
         IN IF a.radius_opts.with_opts.withhash
            THEN Push(c2, Literal("WITHHASH")) ELSE c2

\* COUNT <n> [ANY]
CountClause(a, c) ==
    IF c.failed \/ ~(a.radius_opts.count > 0) THEN c
    ELSE LET c1 == Push(c, Literal("COUNT"))
             count == long_to_string(c1, a.radius_opts.count)
         IN IF ~count.ok THEN BuilderCleanup(count.c)
            ELSE LET c2 == LedgerPut(Push(count.c, count.tok), count.tok.p)
                 IN IF a.radius_opts.any
                    THEN Push(c2, Literal("ANY")) ELSE c2

\* sort token, when given and not empty
SortClause(a, c) ==
    IF c.failed THEN c
    ELSE IF ~IsNull(a.radius_opts.sort) /\ Len(Val(a.radius_opts.sort)) > 0
    THEN Push(c, Borrowed(Val(a.radius_opts.sort))) ELSE c

\* STOREDIST appended without looking at the flag
StoreDistClause_Always(a, c) ==
    IF c.failed THEN c
    ELSE Push(c, Literal("STOREDIST"))

\* STOREDIST
StoreDistClause(a, c) ==
    IF c.failed THEN c
    ELSE IF a.radius_opts.store_dist
    THEN Push(c, Literal("STOREDIST")) ELSE c

prepare_geo_search_args(a, c) ==
    IF IsNull(a) \/ IsNull(Val(a).key) \/ IsNull(Val(a).from)
       \/ IsNull(Val(a).by_radius) \/ IsNull(Val(a).unit)
    THEN [c EXCEPT !.ret = 0]
    ELSE LET r == Val(a)
             c1 == AllocArgArrays(ResetCount(c))
         IN IF c1.failed THEN c1
            ELSE Finish(SortClause(r, CountClause(r, WithClause(r,
                     ByRadiusClause(r, FromClause(r,
                         Push(c1, Borrowed(Val(r.key)))))))))

prepare_geo_search_store_args(a, c) ==
    IF IsNull(a) \/ IsNull(Val(a).dest) \/ IsNull(Val(a).src)
       \/ IsNull(Val(a).from) \/ IsNull(Val(a).by_radius)
       \/ IsNull(Val(a).unit)
    THEN [c EXCEPT !.ret = 0]
    ELSE LET r == Val(a)
             c1 == AllocArgArrays(ResetCount(c))
         IN IF c1.failed THEN c1
            ELSE Finish(StoreDistClause(r, SortClause(r, CountClause(r,
                     ByRadiusClause(r, FromClause(r,
                         Push(Push(c1, Borrowed(Val(r.dest))),
                              Borrowed(Val(r.src)))))))))

(***************************************************************************)
(* Inputs: the records a caller can hand to the builders and dispatcher    *)
(***************************************************************************)
ZeroWith == [withcoord |-> FALSE, withdist |-> FALSE, withhash |-> FALSE]

ZeroOpts == [with_opts |-> ZeroWith, count |-> 0, any |-> FALSE,
             sort |-> None, store_dist |-> FALSE]

ZeroArgs ==
    [key |-> None, members |-> None, member_count |-> 0,
     src_member |-> None, dst_member |-> None, unit |-> None,
     geo_args |-> None, geo_args_count |-> 0,
     from |-> None, by_radius |-> None, radius_opts |-> ZeroOpts,
     dest |-> None, src |-> None]

StrZ(s) == [t |-> "string", s |-> s, n |-> 0]
NumZ(t, n) == [t |-> t, s |-> "", n |-> n]

\* member values: a string, an integer, a value that has no string form
MemberZvals == {StrZ("a"), NumZ("long", 7), NumZ("bad", 0)}

\* GEOADD values: coordinates, member names, and a value with no string form
GeoZvals == {StrZ("Palermo"), NumZ("double", 13), NumZ("bad", 0)}

SeqsUpTo(S, n) == UNION {[1..k -> S] : k \in 0..n}

OptStr(s) == {None, Some(s)}

MembersArgs ==
    {[ZeroArgs EXCEPT !.key = k, !.members = m,
                      !.member_count = IF IsNull(m) THEN 0 ELSE Len(Val(m))]
        : k \in OptStr("k"),
          m \in {None} \cup {Some(q) : q \in SeqsUpTo(MemberZvals, MaxMembers)}}

DistArgs ==
    {[ZeroArgs EXCEPT !.key = k, !.src_member = s, !.dst_member = d, !.unit = u]
        : k \in OptStr("k"), s \in OptStr("Palermo"), d \in OptStr("Catania"),
          u \in OptStr("km")}

AddArgs ==
    {[ZeroArgs EXCEPT !.key = k, !.geo_args = g,
                      !.geo_args_count = IF IsNull(g) THEN 0 ELSE Len(Val(g))]
        : k \in OptStr("k"),
          g \in {None} \cup {Some(q) : q \in SeqsUpTo(GeoZvals, MaxGeoArgs)}}

FromZ(t, s, arr) == [t |-> t, s |-> s, arr |-> arr]

\* origin: absent, a member name, [lon, lat], an array without latitude, a number
FromZvals == {None, Some(FromZ("string", "Palermo", <<>>)),
              Some(FromZ("array", "", <<15, 37>>)),
              Some(FromZ("array", "", <<15>>)),
              Some(FromZ("long", "", <<>>))}

AllOpts ==
    {[with_opts |-> [withcoord |-> wc, withdist |-> wd, withhash |-> wh],
      count |-> n, any |-> any, sort |-> so, store_dist |-> sd]
        : wc \in BOOLEAN, wd \in BOOLEAN, wh \in BOOLEAN, n \in {0, 3},
          any \in BOOLEAN, so \in {None, Some(""), Some("ASC")},
          sd \in BOOLEAN}

\* the option bags the dispatcher is driven with: none, COUNT alone, everything
CallOpts ==
    {ZeroOpts, [ZeroOpts EXCEPT !.count = 3],
     [with_opts |-> [withcoord |-> TRUE, withdist |-> TRUE, withhash |-> TRUE],
      count |-> 3, any |-> TRUE, sort |-> Some("ASC"), store_dist |-> TRUE]}

SearchArgs(opts) ==
    {[ZeroArgs EXCEPT !.key = k, !.from = f, !.by_radius = r, !.unit = u,
                      !.radius_opts = o]
        : k \in OptStr("k"), f \in FromZvals, r \in {None, Some(200)},
          u \in OptStr("km"), o \in {x \in opts : ~x.store_dist}}

SearchStoreArgs(opts) ==
    {[ZeroArgs EXCEPT !.dest = d, !.src = s, !.from = f, !.by_radius = r,
                      !.unit = u, !.radius_opts = o]
        : d \in OptStr("dst"), s \in OptStr("src"), f \in FromZvals,
          r \in {None, Some(200)}, u \in OptStr("km"), o \in opts}

CmdTypes == {"GeoAdd", "GeoDist", "GeoHash", "GeoPos", "GeoSearch",
             "GeoSearchStore", "Get"}

ArgsFor(cmd, opts) ==
    CASE cmd = "GeoAdd" -> AddArgs
      [] cmd \in {"GeoHash", "GeoPos"} -> MembersArgs
      [] cmd = "GeoDist" -> DistArgs
      [] cmd = "GeoSearch" -> SearchArgs(opts)
      [] cmd = "GeoSearchStore" -> SearchStoreArgs(opts)
      [] OTHER -> {ZeroArgs}

\* the (result_ptr, process_result) pairs the command entry points pass
Callers ==
    {<<"NULL", "process_geo_int_result_async">>,
     <<"NULL", "process_geo_double_result_async">>,
     <<"NULL", "process_geo_hash_result_async">>,
     <<"NULL", "process_geo_pos_result_async">>,
     <<"search_data", "process_geo_search_result_async">>}

\* the allocation attempts of one call that the allocator refuses: the ledger
\* array, the two argument arrays and one string per converted value
MaxAttempts == 3 + MaxGeoArgs
OomPlans ==
    {{}} \cup {k..(k + len - 1) : k \in 1..MaxAttempts, len \in 1..MaxOomRun}

(***************************************************************************)
(* The response tree (struct CommandResponse) and the PHP value a result   *)
(* processor fills in.  A text is the sequence of its characters.          *)
(***************************************************************************)
CommandResponse(type, i, f, str, arr) ==
    [response_type |-> type, int_value |-> i, float_value |-> f,
     string_value |-> str, array_value |-> arr]

RInt(i) == CommandResponse("Int", i, 0, <<>>, <<>>)
RFloat(f) == CommandResponse("Float", 0, f, <<>>, <<>>)
RString(str) == CommandResponse("String", 0, 0, str, <<>>)
RNull == CommandResponse("Null", 0, 0, <<>>, <<>>)
RArray(arr) == CommandResponse("Array", 0, 0, <<>>, arr)

\* a zval: its type tag, number, text and (for an array) its entries
Zval(t, n, str, arr) == [t |-> t, n |-> n, s |-> str, arr |-> arr]

ZUnset == Zval("unset", 0, <<>>, <<>>)   \* not assigned by the processor
ZNull == Zval("null", 0, <<>>, <<>>)
ZLong(n) == Zval("long", n, <<>>, <<>>)
ZDouble(n) == Zval("double", n, <<>>, <<>>)
ZString(str) == Zval("string", 0, str, <<>>)
ZArray(entries) == Zval("array", 0, <<>>, entries)

\* atof: the number written by the leading digits of a text, 0 when the text
\* does not start with a digit
DigitVal(ch) == CHOOSE d \in 0..9 : Digit[d + 1] = ch

IsDigit(ch) == \E d \in 0..9 : Digit[d + 1] = ch

RECURSIVE ParseDigits(_, _, _)
ParseDigits(str, i, acc) ==
    IF i > Len(str) \/ ~IsDigit(str[i]) THEN acc
    ELSE ParseDigits(str, i + 1, acc * 10 + DigitVal(str[i]))

atof(str) == ParseDigits(str, 1, 0)

\* add_next_index_*(arr, v) and add_assoc_zval_ex(arr, key, len, v)
Entry(key, val) == [key |-> key, val |-> val]

add_next_index(arr, val) == Append(arr, Entry(None, val))

add_assoc_zval_ex(arr, key, val) ==
    IF \E i \in 1..Len(arr) : arr[i].key = Some(key)
    THEN [i \in 1..Len(arr) |->
             IF arr[i].key = Some(key) THEN Entry(Some(key), val) ELSE arr[i]]
    ELSE Append(arr, Entry(Some(key), val))

\* what a processor call leaves behind: its return value, return_value, the
\* efree calls on search_data, whether it brought the process down, and what
\* it did with the side channel, in order
Outcome(r, rv, frees, crashed) ==
    [ret |-> r, return_value |-> rv, frees |-> frees, crashed |-> crashed,
     trace |-> <<>>]

Traced(o, trace) == [o EXCEPT !.trace = trace]

(***************************************************************************)
(* process_geo_int_result_async / process_geo_double_result_async          *)
(***************************************************************************)
\* the integer processor without its Null case
process_geo_int_result_async_NoNullCase(resp, rv) ==
    IF IsNull(resp) THEN Outcome(0, ZLong(0), 0, FALSE)
    ELSE IF Val(resp).response_type = "Int"
    THEN Outcome(1, ZLong(Val(resp).int_value), 0, FALSE)
    ELSE Outcome(0, ZLong(0), 0, FALSE)

process_geo_int_result_async(resp, rv) ==
    IF IsNull(resp) THEN Outcome(0, ZLong(0), 0, FALSE)
    ELSE IF Val(resp).response_type = "Int"
    THEN Outcome(1, ZLong(Val(resp).int_value), 0, FALSE)
    ELSE IF Val(resp).response_type = "Null"
    THEN Outcome(1, ZNull, 0, FALSE)
    ELSE Outcome(0, ZLong(0), 0, FALSE)

process_geo_double_result_async(resp, rv) ==
    IF IsNull(resp) THEN Outcome(0, ZNull, 0, FALSE)
    ELSE IF Val(resp).response_type = "Null"
    THEN Outcome(1, ZNull, 0, FALSE)
    ELSE IF Val(resp).response_type = "String"
    THEN Outcome(1, ZDouble(atof(Val(resp).string_value)), 0, FALSE)
    ELSE IF Val(resp).response_type = "Float"
    THEN Outcome(1, ZDouble(Val(resp).float_value), 0, FALSE)
    ELSE Outcome(0, rv, 0, FALSE)

(***************************************************************************)
(* process_geo_hash_result_async                                           *)
(***************************************************************************)
\* the loop without the Null branch
RECURSIVE HashLoop_DropNull(_, _, _)
HashLoop_DropNull(elems, i, arr) ==
    IF i > Len(elems) THEN arr
    ELSE LET element == elems[i] IN
         HashLoop_DropNull(elems, i + 1,
             IF element.response_type = "String"
             THEN add_next_index(arr, ZString(element.string_value))
             ELSE arr)

RECURSIVE HashLoop(_, _, _)
HashLoop(elems, i, arr) ==
    IF i > Len(elems) THEN arr
    ELSE LET element == elems[i] IN
         HashLoop(elems, i + 1,
             IF element.response_type = "String"
             THEN add_next_index(arr, ZString(element.string_value))
             ELSE IF element.response_type = "Null"
             THEN add_next_index(arr, ZNull)
             ELSE arr)

process_geo_hash_result_async(resp, rv) ==
    IF IsNull(resp) THEN Outcome(0, ZArray(<<>>), 0, FALSE)
    ELSE IF Val(resp).response_type = "Array"
    THEN Outcome(1, ZArray(HashLoop(Val(resp).array_value, 1, <<>>)), 0, FALSE)
    ELSE Outcome(0, ZArray(<<>>), 0, FALSE)

(***************************************************************************)
(* process_geo_pos_result_async                                            *)
(***************************************************************************)
\* a coordinate leaf appended as a double: parsed from a String, taken from a
\* Float, dropped otherwise
AddCoordinate(arr, leaf) ==
    IF leaf.response_type = "String"
    THEN add_next_index(arr, ZDouble(atof(leaf.string_value)))
    ELSE IF leaf.response_type = "Float"
    THEN add_next_index(arr, ZDouble(leaf.float_value))
    ELSE arr

RECURSIVE PosLoop(_, _, _)
PosLoop(elems, i, arr) ==
    IF i > Len(elems) THEN arr
    ELSE LET element == elems[i] IN
         PosLoop(elems, i + 1,
             IF element.response_type = "Array"
                /\ Len(element.array_value) = 2
             THEN add_next_index(arr,
                      ZArray(AddCoordinate(
                                 AddCoordinate(<<>>, element.array_value[1]),
                                 element.array_value[2])))
             ELSE IF element.response_type = "Null"
             THEN add_next_index(arr, ZNull)
             ELSE arr)

process_geo_pos_result_async(resp, rv) ==
    IF IsNull(resp) THEN Outcome(0, ZArray(<<>>), 0, FALSE)
    ELSE IF Val(resp).response_type = "Array"
    THEN Outcome(1, ZArray(PosLoop(Val(resp).array_value, 1, <<>>)), 0, FALSE)
    ELSE Outcome(0, ZArray(<<>>), 0, FALSE)

(***************************************************************************)
(* process_geo_search_result_async                                         *)
(***************************************************************************)
\* command_response_to_zval(response, return_value, NOT_ASSOSIATIVE, false):
\* the generic conversion of a response tree
RECURSIVE ResponseToZval(_)
ResponseToZval(r) ==
    CASE r.response_type = "Int" -> ZLong(r.int_value)
      [] r.response_type = "Float" -> ZDouble(r.float_value)
      [] r.response_type = "String" -> ZString(r.string_value)
      [] r.response_type = "Array" ->
           ZArray([i \in 1..Len(r.array_value) |->
                      Entry(None, ResponseToZval(r.array_value[i]))])
      [] OTHER -> ZNull

\* st is the status the conversion reports; a failed conversion leaves null
command_response_to_zval(r, st) ==
    [ret |-> st,
     return_value |-> IF st = 1 THEN ResponseToZval(r) ELSE ZNull]

\* member_data read in the order hash, then distance, then coordinates
MemberData_HashFirst(inner, f) ==
    LET n == Len(inner.array_value)
        hash == f.withhash /\ 0 < n
        md1 == IF hash /\ inner.array_value[1].response_type = "Int"
               THEN add_next_index(<<>>, ZLong(inner.array_value[1].int_value))
               ELSE <<>>
        idx1 == IF hash THEN 1 ELSE 0
        dist == f.withdist /\ idx1 < n
        md2 == IF dist THEN AddCoordinate(md1, inner.array_value[idx1 + 1])
               ELSE md1
        idx2 == IF dist THEN idx1 + 1 ELSE idx1
        coord == f.withcoord /\ idx2 < n
        attr == inner.array_value[idx2 + 1]
    IN IF coord /\ attr.response_type = "Array"
          /\ Len(attr.array_value) = 2
       THEN add_next_index(md2,
                ZArray(AddCoordinate(AddCoordinate(<<>>, attr.array_value[1]),
                                     attr.array_value[2])))
       ELSE md2

\* member_data of one element: distance, then hash, then coordinates, each
\* taken from inner_element->array_value[idx] when its flag is set
MemberData(inner, f) ==
    LET n == Len(inner.array_value)
        dist == f.withdist /\ 0 < n
        md1 == IF dist THEN AddCoordinate(<<>>, inner.array_value[1]) ELSE <<>>
        idx1 == IF dist THEN 1 ELSE 0
        hash == f.withhash /\ idx1 < n
        md2 == IF hash /\ inner.array_value[idx1 + 1].response_type = "Int"
               THEN add_next_index(md1,
                        ZLong(inner.array_value[idx1 + 1].int_value))
               ELSE md1
        idx2 == IF hash THEN idx1 + 1 ELSE idx1
        coord == f.withcoord /\ idx2 < n
        attr == inner.array_value[idx2 + 1]
    IN IF coord /\ attr.response_type = "Array"
          /\ Len(attr.array_value) = 2
       THEN add_next_index(md2,
                ZArray(AddCoordinate(AddCoordinate(<<>>, attr.array_value[1]),
                                     attr.array_value[2])))
       ELSE md2

\* the loop over the response elements.  inner_element is array_value[1]
\* whatever the element's length: on a one-element array the read is out of
\* bounds, and either faults (ub = "fault") or finds nothing to consume.
RECURSIVE SearchLoop(_, _, _, _, _)
SearchLoop(elems, i, arr, f, ub) ==
    IF i > Len(elems) THEN [arr |-> arr, crashed |-> FALSE]
    ELSE LET element == elems[i] IN
         IF element.response_type = "Array" /\ Len(element.array_value) > 0
            /\ element.array_value[1].response_type = "String"
         THEN LET member_name == element.array_value[1].string_value IN
              IF Len(element.array_value) < 2
              THEN IF ub = "fault" THEN [arr |-> arr, crashed |-> TRUE]
                   ELSE SearchLoop(elems, i + 1,
                            add_assoc_zval_ex(arr, member_name, ZArray(<<>>)),
                            f, ub)
              ELSE SearchLoop(elems, i + 1,
                       add_assoc_zval_ex(arr, member_name,
                           ZArray(MemberData(element.array_value[2], f))),
                       f, ub)
         ELSE SearchLoop(elems, i + 1, arr, f, ub)

\* a no-flag path that reports success whatever the conversion says
process_geo_search_result_async_IgnoresStatus(resp, out, rv, ub, st) ==
    IF IsNull(resp) \/ IsNull(out)
    THEN Outcome(0, ZArray(<<>>), IF IsNull(out) THEN 0 ELSE 1, FALSE)
    ELSE LET f == Val(out) IN
         IF ~f.withcoord /\ ~f.withdist /\ ~f.withhash
         THEN Traced(Outcome(1, command_response_to_zval(Val(resp), st).return_value,
                             1, FALSE),
                     <<"read_flags", "free_search_data",
                       IF st = 1 THEN "converted" ELSE "not_converted">>)
         ELSE Outcome(IF Val(resp).response_type = "Array" THEN 1 ELSE 0,
                      ZArray(<<>>), 1, FALSE)

\* whether the loop takes &element->array_value[1] of an element that holds
\* the member name alone
ReadsPastEnd(elems) ==
    \E i \in 1..Len(elems) :
        /\ elems[i].response_type = "Array"
        /\ Len(elems[i].array_value) = 1
        /\ elems[i].array_value[1].response_type = "String"

process_geo_search_result_async(resp, out, rv, ub, st) ==
    IF IsNull(resp) \/ IsNull(out)
    THEN IF IsNull(out) THEN Outcome(0, ZArray(<<>>), 0, FALSE)
         ELSE Traced(Outcome(0, ZArray(<<>>), 1, FALSE),
                     <<"free_search_data">>)
    ELSE LET f == Val(out) IN
         IF ~f.withcoord /\ ~f.withdist /\ ~f.withhash
         THEN LET r == command_response_to_zval(Val(resp), st)
              IN Traced(Outcome(r.ret, r.return_value, 1, FALSE),
                        <<"read_flags", "free_search_data",
                          IF st = 1 THEN "converted" ELSE "not_converted">>)
         ELSE IF Val(resp).response_type = "Array"
         THEN LET l == SearchLoop(Val(resp).array_value, 1, <<>>, f, ub)
                  reads == IF ReadsPastEnd(Val(resp).array_value)
                           THEN <<"read_flags", "read_past_end">>
                           ELSE <<"read_flags">>
              IN IF l.crashed
                 THEN Traced(Outcome(0, ZArray(l.arr), 0, TRUE), reads)
                 ELSE Traced(Outcome(1, ZArray(l.arr), 1, FALSE),
                             reads \o <<"free_search_data">>)
         ELSE Traced(Outcome(0, ZArray(<<>>), 1, FALSE),
                     <<"read_flags", "free_search_data">>)

\* the processor-side variables while no processor runs
ProcIdle ==
    /\ response = None
    /\ search_data = None
    /\ search_data_frees = 0
    /\ return_value = ZUnset

(***************************************************************************)
(* execute_geo_generic_command, one action per step of its body            *)
(***************************************************************************)
NoResult == [kind |-> "none", frees |-> 0]

\* the locals of a call before it starts
CallReset ==
    /\ heap' = <<>>
    /\ arg_values' = NULL
    /\ arg_lens' = NULL
    /\ allocated_strings' = NULL
    /\ ledger' = <<>>
    /\ allocated_count' = 0
    /\ arg_count' = 0
    /\ argv' = <<>>
    /\ out_written' = {}
    /\ result' = NoResult
    /\ success' = 0
    /\ status' = 0
    /\ ret' = 0
    /\ buffered' = <<>>
    /\ events' = <<>>

Init ==
    /\ pc = "idle"
    /\ is_in_batch_mode = FALSE
    /\ cmd_type = "Get"
    /\ args = None
    /\ result_ptr = "NULL"
    /\ process_result = "process_geo_int_result_async"
    /\ heap = <<>>
    /\ arg_values = NULL
    /\ arg_lens = NULL
    /\ allocated_strings = NULL
    /\ ledger = <<>>
    /\ allocated_count = 0
    /\ arg_count = 0
    /\ argv = <<>>
    /\ out_written = {}
    /\ result = NoResult
    /\ success = 0
    /\ status = 0
    /\ ret = 0
    /\ buffered = <<>>
    /\ events = <<>>
    /\ ProcIdle

\* the connection's owner opens or closes a batch between two calls
ToggleBatchMode ==
    /\ pc = "idle"
    /\ is_in_batch_mode' = ~is_in_batch_mode
    /\ UNCHANGED <<procvars, pc, cmd_type, args, result_ptr, process_result, heap,
                   arg_values, arg_lens, allocated_strings, ledger,
                   allocated_count, arg_count, argv, out_written, result,
                   success, status, ret, buffered, events>>

\* entry: if (!valkey_glide || !args) return 0; locals initialised
Enter(valkey_glide, cmd, a, rp, proc) ==
    /\ pc = "idle"
    /\ cmd_type' = cmd
    /\ args' = a
    /\ result_ptr' = rp
    /\ process_result' = proc
    /\ CallReset
    /\ pc' = IF ~valkey_glide \/ IsNull(a) THEN "done" ELSE "switch"
    /\ UNCHANGED <<procvars, is_in_batch_mode>>

\* the search ledger sized for the longitude, latitude and radius only
LedgerSlots_CoordsOnly(cmd, a) ==
    CASE cmd = "GeoAdd" -> Val(a).geo_args_count
      [] cmd \in {"GeoHash", "GeoPos"} -> Val(a).member_count
      [] OTHER -> 3

\* the ledger array the dispatcher allocates before calling a builder
LedgerSlots(cmd, a) ==
    CASE cmd = "GeoAdd" -> Val(a).geo_args_count
      [] cmd \in {"GeoHash", "GeoPos"} -> Val(a).member_count
      [] OTHER -> SearchLedgerSlots

\* the slots of the two argument arrays a builder allocates
ArgSlots(cmd, a) ==
    CASE cmd = "GeoAdd" -> 1 + Val(a).geo_args_count
      [] cmd \in {"GeoHash", "GeoPos"} -> 1 + Val(a).member_count
      [] cmd = "GeoDist" -> IF ~IsNull(Val(a).unit) THEN 4 ELSE 3
      [] cmd = "GeoSearch" -> SearchMaxArgs
      [] cmd = "GeoSearchStore" -> SearchStoreMaxArgs

Builder(cmd, a, c) ==
    CASE cmd = "GeoAdd" -> prepare_geo_add_args(a, c)
      [] cmd = "GeoDist" -> prepare_geo_dist_args(a, c)
      [] cmd \in {"GeoHash", "GeoPos"} -> prepare_geo_members_args(a, c)
      [] cmd = "GeoSearch" -> prepare_geo_search_args(a, c)
      [] cmd = "GeoSearchStore" -> prepare_geo_search_store_args(a, c)

\* switch (cmd_type): allocate the ledger (all but GeoDist), call the builder
Prepare(oom) ==
    /\ pc = "switch"
    /\ IF cmd_type \notin {"GeoAdd", "GeoDist", "GeoHash", "GeoPos",
                          "GeoSearch", "GeoSearchStore"}
       THEN /\ pc' = "done"
            /\ ret' = 0
            /\ UNCHANGED <<heap, arg_values, arg_lens, allocated_strings,
                           ledger, allocated_count, arg_count, argv,
                           out_written, events>>
       ELSE LET c0 == Ctx(heap, 0, oom, <<>>)
                c1 == IF cmd_type = "GeoDist" THEN c0
                      ELSE TryAlloc(c0, "ledger")
            IN IF cmd_type # "GeoDist" /\ c1.last = NULL
               THEN /\ pc' = "done"
                    /\ ret' = 0
                    /\ UNCHANGED <<heap, arg_values, arg_lens,
                                   allocated_strings, ledger, allocated_count,
                                   arg_count, argv, out_written, events>>
               ELSE LET c == Builder(cmd_type, args, c1) IN
                    /\ heap' = c.heap
                    /\ allocated_strings' =
                           IF cmd_type = "GeoDist" THEN NULL ELSE c1.last
                    /\ arg_values' = c.args_out
                    /\ arg_lens' = c.args_len_out
                    /\ ledger' = c.ledger
                    /\ allocated_count' = c.allocated_count
                    /\ argv' = c.argv
                    /\ out_written' = c.written
                    /\ arg_count' = c.ret
                    /\ events' = events \o
                           (IF cmd_type = "GeoDist" THEN <<>>
                            ELSE <<"alloc_ledger">>) \o <<"build">>
                    /\ pc' = "check_count"
                    /\ UNCHANGED ret
    /\ UNCHANGED <<procvars, is_in_batch_mode, cmd_type, args, result_ptr,
                   process_result, result, success, status, buffered>>

FreeIfSet(h, p) == IF p # NULL THEN efree(h, p) ELSE h

\* if (allocated_strings) efree(..); if (arg_values) efree(..); if (arg_lens) ..
FreeArrays(h) ==
    FreeIfSet(FreeIfSet(FreeIfSet(h, allocated_strings), arg_values), arg_lens)

\* the free loop stopping one entry short (i < allocated_count - 1)
FreeLedgered_OffByOne(h) ==
    [p \in DOMAIN h |->
        [h[p] EXCEPT !.frees =
            @ + Cardinality({i \in 1..(allocated_count - 1) :
                                i <= Len(ledger) /\ ledger[i] = p})]]

\* for (i = 0; i < allocated_count; i++) if (allocated_strings[i]) efree(..)
FreeLedgered(h) ==
    [p \in DOMAIN h |->
        [h[p] EXCEPT !.frees =
            @ + Cardinality({i \in 1..allocated_count :
                                i <= Len(ledger) /\ ledger[i] = p})]]

DoubleFreed(h) == \E p \in DOMAIN h : h[p].frees > 1

\* the count test written as arg_count < 0
CheckArgCount_Negative ==
    /\ pc = "check_count"
    /\ IF arg_count < 0
       THEN /\ heap' = FreeArrays(heap)
            /\ events' = Append(events, "free_arrays")
            /\ ret' = 0
            /\ pc' = "done"
       ELSE /\ pc' = IF is_in_batch_mode THEN "batch" ELSE "execute"
            /\ UNCHANGED <<heap, events, ret>>
    /\ UNCHANGED <<procvars, is_in_batch_mode, cmd_type, args, result_ptr,
                   process_result, arg_values, arg_lens, allocated_strings,
                   ledger, allocated_count, arg_count, argv, out_written,
                   result, success, status, buffered>>

\* if (arg_count <= 0) { free the three arrays; return 0; }
\* An efree of a block that is already free is undefined: the allocator may
\* abort the process or carry on.
CheckArgCount ==
    /\ pc = "check_count"
    /\ IF arg_count <= 0
       THEN /\ heap' = FreeArrays(heap)
            /\ events' = Append(events, "free_arrays")
            /\ ret' = 0
            /\ pc' \in IF DoubleFreed(FreeArrays(heap))
                        THEN {"done", "crashed"} ELSE {"done"}
       ELSE /\ pc' = IF is_in_batch_mode THEN "batch" ELSE "execute"
            /\ UNCHANGED <<heap, events, ret>>
    /\ UNCHANGED <<procvars, is_in_batch_mode, cmd_type, args, result_ptr,
                   process_result, arg_values, arg_lens, allocated_strings,
                   ledger, allocated_count, arg_count, argv, out_written,
                   result, success, status, buffered>>

\* status = buffer_command_for_batch(valkey_glide, cmd_type, arg_values,
\*                                   arg_lens, arg_count, result_ptr, process_result)
BufferForBatch(st) ==
    /\ pc = "batch"
    /\ buffered' = Append(buffered,
           [cmd_type |-> cmd_type, arg_values |-> arg_values,
            arg_lens |-> arg_lens, arg_count |-> arg_count,
            result_ptr |-> result_ptr, process_result |-> process_result])
    /\ status' = st
    /\ events' = Append(events, "append")
    /\ pc' = "batch_free"
    /\ UNCHANGED <<procvars, is_in_batch_mode, cmd_type, args, result_ptr,
                   process_result, heap, arg_values, arg_lens,
                   allocated_strings, ledger, allocated_count, arg_count,
                   argv, out_written, result, success, ret>>

\* the batch branch releasing only the three arrays
BatchFree_ArraysOnly ==
    /\ pc = "batch_free"
    /\ heap' = FreeArrays(heap)
    /\ events' = events \o <<"free_arrays">>
    /\ ret' = status
    /\ pc' = "done"
    /\ UNCHANGED <<procvars, is_in_batch_mode, cmd_type, args, result_ptr,
                   process_result, arg_values, arg_lens, allocated_strings,
                   ledger, allocated_count, arg_count, argv, out_written,
                   result, success, status, buffered>>

\* the batch branch returning success whatever the append status
BatchFree_ReturnsSuccess ==
    /\ pc = "batch_free"
    /\ heap' = FreeArrays(FreeLedgered(heap))
    /\ events' = events \o <<"free_strings", "free_arrays">>
    /\ ret' = 1
    /\ pc' = "done"
    /\ UNCHANGED <<procvars, is_in_batch_mode, cmd_type, args, result_ptr,
                   process_result, arg_values, arg_lens, allocated_strings,
                   ledger, allocated_count, arg_count, argv, out_written,
                   result, success, status, buffered>>

\* batch branch: free the ledgered strings and the three arrays; return status
\* a batch branch that takes the connection out of batch mode
BatchFree_LeavesBatchMode ==
    /\ pc = "batch_free"
    /\ heap' = FreeArrays(FreeLedgered(heap))
    /\ events' = events \o <<"free_strings", "free_arrays">>
    /\ ret' = status
    /\ pc' = "done"
    /\ is_in_batch_mode' = FALSE
    /\ UNCHANGED <<procvars, cmd_type, args, result_ptr,
                   process_result, arg_values, arg_lens, allocated_strings,
                   ledger, allocated_count, arg_count, argv, out_written,
                   result, success, status, buffered>>

BatchFree ==
    /\ pc = "batch_free"
    /\ heap' = FreeArrays(FreeLedgered(heap))
    /\ events' = events \o <<"free_strings", "free_arrays">>
    /\ ret' = status
    /\ pc' = "done"
    /\ UNCHANGED <<procvars, is_in_batch_mode, cmd_type, args, result_ptr,
                   process_result, arg_values, arg_lens, allocated_strings,
                   ledger, allocated_count, arg_count, argv, out_written,
                   result, success, status, buffered>>

\* execute_command(glide_client, cmd_type, arg_count, arg_values, arg_lens)
\* is entered ...
\* the frees of lines 880-892 done before the executor is called
ExecuteCall_FreesFirst ==
    /\ pc = "execute"
    /\ heap' = FreeArrays(FreeLedgered(heap))
    /\ events' = Append(events, "execute")
    /\ pc' = "executing"
    /\ UNCHANGED <<procvars, is_in_batch_mode, cmd_type, args, result_ptr,
                   process_result, arg_values, arg_lens,
                   allocated_strings, ledger, allocated_count, arg_count,
                   argv, out_written, result, success, status, ret, buffered>>

ExecuteCall ==
    /\ pc = "execute"
    /\ events' = Append(events, "execute")
    /\ pc' = "executing"
    /\ UNCHANGED <<procvars, is_in_batch_mode, cmd_type, args, result_ptr,
                   process_result, heap, arg_values, arg_lens,
                   allocated_strings, ledger, allocated_count, arg_count,
                   argv, out_written, result, success, status, ret, buffered>>

\* ... and returns NULL, a result carrying a command error, or a response
ExecuteReturn(kind) ==
    /\ pc = "executing"
    /\ result' = [kind |-> kind, frees |-> 0]
    /\ pc' = "free_args"
    /\ UNCHANGED <<procvars, is_in_batch_mode, cmd_type, args, result_ptr,
                   process_result, heap, arg_values, arg_lens,
                   allocated_strings, ledger, allocated_count, arg_count,
                   argv, out_written, success, status, ret, buffered, events>>

\* the sync branch not releasing the arguments before the result is looked at
FreeArgs_Deferred ==
    /\ pc = "free_args"
    /\ pc' = "check_result"
    /\ UNCHANGED <<procvars, is_in_batch_mode, cmd_type, args, result_ptr,
                   process_result, heap, arg_values, arg_lens,
                   allocated_strings, ledger, allocated_count, arg_count,
                   argv, out_written, result, success, status, ret, buffered,
                   events>>

\* sync branch: free the ledgered strings and the three arrays
FreeArgs ==
    /\ pc = "free_args"
    /\ heap' = FreeArrays(FreeLedgered(heap))
    /\ events' = events \o <<"free_strings", "free_arrays">>
    /\ pc' = "check_result"
    /\ UNCHANGED <<procvars, is_in_batch_mode, cmd_type, args, result_ptr,
                   process_result, arg_values, arg_lens, allocated_strings,
                   ledger, allocated_count, arg_count, argv, out_written,
                   result, success, status, ret, buffered>>

\* the result check without the command_error test
CheckResult_IgnoreError ==
    /\ pc = "check_result"
    /\ CASE result.kind = "null" ->
              /\ ret' = 0
              /\ pc' = "done"
              /\ UNCHANGED <<result, events>>
         [] OTHER ->
              /\ pc' = "process"
              /\ UNCHANGED <<result, events, ret>>
    /\ UNCHANGED <<procvars, is_in_batch_mode, cmd_type, args, result_ptr,
                   process_result, heap, arg_values, arg_lens,
                   allocated_strings, ledger, allocated_count, arg_count,
                   argv, out_written, success, status, buffered>>

\* if (!result) return 0; if (result->command_error) { free; return 0; }
CheckResult ==
    /\ pc = "check_result"
    /\ CASE result.kind = "null" ->
              /\ ret' = 0
              /\ pc' = "done"
              /\ UNCHANGED <<result, events>>
         [] result.kind = "error" ->
              /\ result' = [result EXCEPT !.frees = @ + 1]
              /\ events' = Append(events, "free_result")
              /\ ret' = 0
              /\ pc' = "done"
         [] OTHER ->
              /\ pc' = "process"
              /\ UNCHANGED <<result, events, ret>>
    /\ UNCHANGED <<procvars, is_in_batch_mode, cmd_type, args, result_ptr,
                   process_result, heap, arg_values, arg_lens,
                   allocated_strings, ledger, allocated_count, arg_count,
                   argv, out_written, success, status, buffered>>

\* success = process_result(result->response, result_ptr, return_value)
ProcessResult(flag) ==
    /\ pc = "process"
    /\ success' = flag
    /\ events' = Append(events, "process")
    /\ pc' = "free_result"
    /\ UNCHANGED <<procvars, is_in_batch_mode, cmd_type, args, result_ptr,
                   process_result, heap, arg_values, arg_lens,
                   allocated_strings, ledger, allocated_count, arg_count,
                   argv, out_written, result, status, ret, buffered>>

\* the last step returning 1 instead of the processor's flag
FreeResult_ReturnsOne ==
    /\ pc = "free_result"
    /\ result' = [result EXCEPT !.frees = @ + 1]
    /\ events' = Append(events, "free_result")
    /\ ret' = 1
    /\ pc' = "done"
    /\ UNCHANGED <<procvars, is_in_batch_mode, cmd_type, args, result_ptr,
                   process_result, heap, arg_values, arg_lens,
                   allocated_strings, ledger, allocated_count, arg_count,
                   argv, out_written, success, status, buffered>>

\* free_command_result(result); return success;
FreeResult ==
    /\ pc = "free_result"
    /\ result' = [result EXCEPT !.frees = @ + 1]
    /\ events' = Append(events, "free_result")
    /\ ret' = success
    /\ pc' = "done"
    /\ UNCHANGED <<procvars, is_in_batch_mode, cmd_type, args, result_ptr,
                   process_result, heap, arg_values, arg_lens,
                   allocated_strings, ledger, allocated_count, arg_count,
                   argv, out_written, success, status, buffered>>

\* control is back with the caller; the call's frame is gone
Return ==
    /\ pc = "done"
    /\ pc' = "idle"
    /\ cmd_type' = "Get"
    /\ args' = None
    /\ result_ptr' = "NULL"
    /\ process_result' = "process_geo_int_result_async"
    /\ CallReset
    /\ UNCHANGED <<procvars, is_in_batch_mode>>

\* a caller starts a command on the connection
Call ==
    /\ pc = "idle"
    /\ \E valkey_glide \in BOOLEAN, cmd \in CmdTypes, caller \in Callers :
          \E a \in {None} \cup {Some(r) : r \in ArgsFor(cmd, CallOpts)} :
              Enter(valkey_glide, cmd, a, caller[1], caller[2])

PrepareStep ==
    /\ pc = "switch"
    /\ \E oom \in OomPlans : Prepare(oom)

Next ==
    \/ ToggleBatchMode
    \/ Call
    \/ PrepareStep
    \/ CheckArgCount
    \/ \E st \in {0, 1} : BufferForBatch(st)
    \/ BatchFree
    \/ ExecuteCall
    \/ \E kind \in {"null", "error", "ok"} : ExecuteReturn(kind)
    \/ FreeArgs
    \/ CheckResult
    \/ \E flag \in {0, 1} : ProcessResult(flag)
    \/ FreeResult
    \/ Return

Spec == Init /\ [][Next]_vars

(***************************************************************************)
(* The builders on their own: Init draws a command shape and a record,     *)
(* one action per builder applies it with the caller's out-parameters.     *)
(***************************************************************************)
BuilderCmds == {"GeoAdd", "GeoDist", "GeoHash", "GeoSearch", "GeoSearchStore"}

InitBuild ==
    /\ pc = "builder"
    /\ is_in_batch_mode = FALSE
    /\ cmd_type \in BuilderCmds
    /\ args \in {None} \cup {Some(r) : r \in ArgsFor(cmd_type, AllOpts)}
    /\ result_ptr = "NULL"
    /\ process_result = "process_geo_int_result_async"
    /\ heap = <<>>
    /\ arg_values = NULL
    /\ arg_lens = NULL
    /\ allocated_strings = NULL
    /\ ledger = <<>>
    /\ allocated_count = 0
    /\ arg_count = 0
    /\ argv = <<>>
    /\ out_written = {}
    /\ result = NoResult
    /\ success = 0
    /\ status = 0
    /\ ret = 0
    /\ buffered = <<>>
    /\ events = <<>>
    /\ ProcIdle

\* the allocator refused one of the attempts the builder made
Refused(c) == \E k \in 1..c.n : k \in c.oom

\* the builder's effects, stored into the caller's variables
Built(c) ==
    /\ heap' = c.heap
    /\ arg_values' = c.args_out
    /\ arg_lens' = c.args_len_out
    /\ ledger' = c.ledger
    /\ allocated_count' = c.allocated_count
    /\ argv' = c.argv
    /\ out_written' = c.written
    /\ arg_count' = c.ret
    /\ events' = events \o (IF Refused(c) THEN <<"alloc_refused">> ELSE <<>>)
                         \o <<"build">>
    /\ pc' = "built"
    /\ UNCHANGED <<procvars, is_in_batch_mode, cmd_type, args, result_ptr,
                   process_result, allocated_strings, result, success, status,
                   ret, buffered>>

BuildMembers ==
    /\ pc = "builder" /\ cmd_type = "GeoHash"
    /\ \E oom \in OomPlans :
          Built(prepare_geo_members_args(args, Ctx(heap, 0, oom, <<>>)))

BuildDist ==
    /\ pc = "builder" /\ cmd_type = "GeoDist"
    /\ \E oom \in OomPlans :
          Built(prepare_geo_dist_args(args, Ctx(heap, 0, oom, <<>>)))

BuildAdd ==
    /\ pc = "builder" /\ cmd_type = "GeoAdd"
    /\ \E oom \in OomPlans :
          Built(prepare_geo_add_args(args, Ctx(heap, 0, oom, <<>>)))

BuildSearch ==
    /\ pc = "builder" /\ cmd_type = "GeoSearch"
    /\ \E oom \in OomPlans :
          Built(prepare_geo_search_args(args, Ctx(heap, 0, oom, <<>>)))

BuildSearchStore ==
    /\ pc = "builder" /\ cmd_type = "GeoSearchStore"
    /\ \E oom \in OomPlans :
          Built(prepare_geo_search_store_args(args, Ctx(heap, 0, oom, <<>>)))

NextBuild ==
    \/ BuildMembers
    \/ BuildDist
    \/ BuildAdd
    \/ BuildSearch
    \/ BuildSearchStore

SpecBuild == InitBuild /\ [][NextBuild]_vars

(***************************************************************************)
(* The result processors on their own: Init draws a processor, a response  *)
(* tree and the side channel, one action per processor applies it.         *)
(***************************************************************************)
Palermo == <<"P", "a", "l", "e", "r", "m", "o">>
Text190 == <<"1", "9", "0">>
Text13 == <<"1", "3">>
Text38 == <<"3", "8">>
Catania == <<"C", "a", "t", "a", "n", "i", "a">>

Leaves == {RInt(5), RFloat(13), RString(Text190), RString(Palermo), RNull}

\* [lon, lat] as the server sends it: two texts, two floats, or an integer
\* longitude with a float latitude
Pairs == {RArray(<<RString(Text13), RString(Text38)>>),
          RArray(<<RFloat(13), RFloat(38)>>),
          RArray(<<RInt(13), RFloat(38)>>)}

\* the attribute lists that can follow a member name in a search reply
AttrLists ==
    {<<>>, <<RString(Text190)>>, <<RInt(5)>>,
     <<RArray(<<RString(Text13), RString(Text38)>>)>>,
     <<RFloat(190), RInt(5)>>,
     <<RString(Text190), RArray(<<RString(Text13), RString(Text38)>>)>>,
     <<RInt(5), RArray(<<RFloat(13), RFloat(38)>>)>>,
     <<RString(Text190), RInt(5), RArray(<<RFloat(13), RFloat(38)>>)>>}

\* [name, [attributes]], a name alone, a non-text name, an empty element
SearchElements ==
    {RArray(<<RString(Palermo), RArray(attrs)>>) : attrs \in AttrLists}
        \cup {RArray(<<RString(Catania), RArray(<<RFloat(190), RInt(5)>>)>>),
              RArray(<<RString(Palermo)>>), RArray(<<RInt(5), RArray(<<>>)>>),
              RArray(<<>>)}

Elements == Leaves \cup Pairs \cup SearchElements

Responses ==
    {None} \cup {Some(r) : r \in Leaves}
        \cup {Some(RArray(q)) : q \in SeqsUpTo(Elements, MaxElems)}

SearchFlags ==
    {[withcoord |-> wc, withdist |-> wd, withhash |-> wh]
        : wc \in BOOLEAN, wd \in BOOLEAN, wh \in BOOLEAN}

Processors == {caller[2] : caller \in Callers}

InitProc ==
    /\ pc = "processor"
    /\ is_in_batch_mode = FALSE
    /\ cmd_type = "Get"
    /\ args = None
    /\ process_result \in Processors
    /\ result_ptr = IF process_result = "process_geo_search_result_async"
                    THEN "search_data" ELSE "NULL"
    /\ heap = <<>>
    /\ arg_values = NULL
    /\ arg_lens = NULL
    /\ allocated_strings = NULL
    /\ ledger = <<>>
    /\ allocated_count = 0
    /\ arg_count = 0
    /\ argv = <<>>
    /\ out_written = {}
    /\ result = NoResult
    /\ success = 0
    /\ status = 0
    /\ ret = 0
    /\ buffered = <<>>
    /\ events = <<>>
    /\ response \in Responses
    /\ search_data \in IF process_result = "process_geo_search_result_async"
                        THEN {None} \cup {Some(f) : f \in SearchFlags}
                        ELSE {None}
    /\ search_data_frees = 0
    /\ return_value = ZUnset

\* the processor's effects, stored into the caller's variables
Processed(o) ==
    /\ success' = o.ret
    /\ return_value' = o.return_value
    /\ search_data_frees' = search_data_frees + o.frees
    /\ events' = events \o o.trace \o <<"process">>
    /\ pc' = IF o.crashed THEN "crashed" ELSE "processed"
    /\ UNCHANGED <<response, search_data, is_in_batch_mode, cmd_type, args,
                   result_ptr, process_result, heap, arg_values, arg_lens,
                   allocated_strings, ledger, allocated_count, arg_count,
                   argv, out_written, result, status, ret, buffered>>

ProcInt ==
    /\ pc = "processor"
    /\ process_result = "process_geo_int_result_async"
    /\ Processed(process_geo_int_result_async(response, return_value))

ProcDouble ==
    /\ pc = "processor"
    /\ process_result = "process_geo_double_result_async"
    /\ Processed(process_geo_double_result_async(response, return_value))

ProcHash ==
    /\ pc = "processor"
    /\ process_result = "process_geo_hash_result_async"
    /\ Processed(process_geo_hash_result_async(response, return_value))

ProcPos ==
    /\ pc = "processor"
    /\ process_result = "process_geo_pos_result_async"
    /\ Processed(process_geo_pos_result_async(response, return_value))

ProcSearch ==
    /\ pc = "processor"
    /\ process_result = "process_geo_search_result_async"
    /\ \E ub \in {"fault", "skip"}, st \in {0, 1} :
          Processed(process_geo_search_result_async(
                        response, search_data, return_value, ub, st))

NextProc ==
    \/ ProcInt
    \/ ProcDouble
    \/ ProcHash
    \/ ProcPos
    \/ ProcSearch

SpecProc == InitProc /\ [][NextProc]_vars

(***************************************************************************)
(* Properties                                                              *)
(***************************************************************************)
Count(e) == Cardinality({i \in 1..Len(events) : events[i] = e})

Did(e) == \E i \in 1..Len(events) : events[i] = e

\* the last n events of the call
LastEvents(n) ==
    IF Len(events) < n THEN <<>>
    ELSE SubSeq(events, Len(events) - n + 1, Len(events))

AllFreed == \A p \in DOMAIN heap : heap[p].frees >= 1

AllLive == \A p \in DOMAIN heap : heap[p].frees = 0

LedgeredStrings == {ledger[i] : i \in 1..Len(ledger)}

SupportedCmds == {"GeoAdd", "GeoDist", "GeoHash", "GeoPos", "GeoSearch",
                  "GeoSearchStore"}

\* the shape preconditions of a record, per command shape (spec section 3)
ShapeViolation(cmd, r) ==
    CASE cmd \in {"GeoHash", "GeoPos"} ->
           IsNull(r.key) \/ IsNull(r.members) \/ r.member_count <= 0
      [] cmd = "GeoDist" ->
           IsNull(r.key) \/ IsNull(r.src_member) \/ IsNull(r.dst_member)
      [] cmd = "GeoAdd" ->
           \/ IsNull(r.key) \/ IsNull(r.geo_args)
           \/ r.geo_args_count < 3 \/ r.geo_args_count % 3 # 0
      [] cmd = "GeoSearch" ->
           \/ IsNull(r.key) \/ IsNull(r.from)
           \/ IsNull(r.by_radius) \/ IsNull(r.unit)
      [] cmd = "GeoSearchStore" ->
           \/ IsNull(r.dest) \/ IsNull(r.src) \/ IsNull(r.from)
           \/ IsNull(r.by_radius) \/ IsNull(r.unit)
      [] OTHER -> FALSE

\* C1: on every path through execute_geo_generic_command and the builder it
\* invokes, no scratch allocation (argument-value array, argument-length
\* array, ledger array, ledgered string) is freed more than once.
C1_NoDoubleFree == \A p \in DOMAIN heap : heap[p].frees <= 1

\* C2: when a non-batch call returns, on any outcome, every scratch block the
\* call allocated has been freed: nothing allocated by the call is still live.
C2_SyncReturnNothingLive ==
    (pc = "done" /\ ~is_in_batch_mode) => AllFreed

C2_Witness ==
    /\ pc = "done" /\ ~is_in_batch_mode
    /\ result.kind = "ok"
    /\ allocated_count >= 2
    /\ AllFreed

C4_NoExecutionAfterFailedBuild ==
    /\ (Did("execute") \/ Did("append"))
           => (Did("build") /\ arg_count > 0 /\ arg_count = Len(argv))
    /\ ((Did("build") /\ arg_count <= 0)
           \/ (pc \notin {"idle", "switch"} /\ cmd_type \notin SupportedCmds))
           => (/\ pc \in {"check_count", "done", "crashed"}
               /\ ~Did("execute") /\ ~Did("append")
               /\ buffered = <<>> /\ result = NoResult
               /\ (pc = "done" => ret = 0))

C4_Witness ==
    /\ pc = "done" /\ Did("build") /\ arg_count <= 0
    /\ ~IsNull(args) /\ ~ShapeViolation(cmd_type, Val(args))
    /\ ret = 0

\* C5 as stated: in a non-batch call with an error-free result the processor
\* runs first, then the result object is freed, and only after that are the
\* ledgered strings and the argument arrays freed.
C5_ArgsFreedAfterResult ==
    (~is_in_batch_mode /\ result.kind = "ok"
        /\ \E p \in DOMAIN heap : heap[p].frees > 0)
        => (Did("process") /\ result.frees >= 1)

\* C5 as amended: in a non-batch call with an error-free result the ledgered
\* strings and the arrays are freed first, right after the executor returns;
\* the processor is invoked next and the result object is freed last.
C5_ArgsFreedBeforeProcessor ==
    /\ (pc = "process")
           => (AllFreed /\ ~Did("process") /\ result.frees = 0)
    /\ (pc = "done" /\ result.kind = "ok")
           => LastEvents(5) = <<"execute", "free_strings", "free_arrays",
                          "process", "free_result">>

C5_Witness ==
    /\ pc = "done" /\ result.kind = "ok" /\ ~is_in_batch_mode
    /\ allocated_count >= 1
    /\ LastEvents(2) = <<"process", "free_result">>

\* C6: in a non-batch call a null result makes the call fail; a result
\* carrying a command error is freed exactly once and the call fails; in
\* both cases the processor is never invoked and the executor is not retried.
C6_ExecutorFailure ==
    /\ (result.kind \in {"null", "error"})
           => (~Did("process") /\ Count("execute") = 1)
    /\ (pc = "done" /\ result.kind = "null")
           => (ret = 0 /\ result.frees = 0)
    /\ (pc = "done" /\ result.kind = "error")
           => (ret = 0 /\ result.frees = 1)

C6_Witness ==
    /\ pc = "done" /\ result.kind = "error" /\ result.frees = 1 /\ ret = 0

\* C7: in a non-batch call with a non-null, error-free result the processor
\* is invoked exactly once, the result object is freed exactly once and only
\* after the processor has returned, and the call returns the processor's
\* success flag.
C7_ProcessThenFree ==
    /\ (result.kind = "ok" /\ result.frees >= 1) => Did("process")
    /\ (pc = "done" /\ result.kind = "ok")
           => /\ Count("process") = 1
              /\ result.frees = 1
              /\ LastEvents(2) = <<"process", "free_result">>
              /\ ret = success

C7_Witness ==
    /\ pc = "done" /\ result.kind = "ok" /\ result.frees = 1
    /\ success = 1 /\ ret = 1

C9_BuilderFailsFast ==
    (pc = "built" /\ (IsNull(args) \/ ShapeViolation(cmd_type, Val(args))))
        => /\ arg_count = 0
           /\ heap = <<>>
           /\ out_written = {}
           /\ arg_values = NULL /\ arg_lens = NULL
           /\ ledger = <<>> /\ argv = <<>>

C9_Witness ==
    /\ pc = "built" /\ cmd_type = "GeoDist" /\ ~IsNull(args)
    /\ ~IsNull(Val(args).key) /\ ~IsNull(Val(args).src_member)
    /\ IsNull(Val(args).dst_member)
    /\ arg_count = 0 /\ heap = <<>>

\* C10: for every command type the dispatcher handles, a precondition
\* violation in the record is detected before any allocation is performed in
\* that call, and the call returns failure immediately.
C10_NoAllocationBeforeRejection ==
    (pc \notin {"idle", "switch", "builder", "built"} /\ ~IsNull(args)
        /\ ShapeViolation(cmd_type, Val(args)))
        => (heap = <<>> /\ (pc = "done" => ret = 0))

\* the texts of the argument slots, in slot order
Texts(slots) == [i \in 1..Len(slots) |-> slots[i].s]

\* the text a value is expected to contribute to the argument list
ZvalText(z) == IF z.t = "string" THEN z.s ELSE NatToStr(z.n)

HasStringForm(z) == z.t \in {"string", "long", "double"}

\* the record is well formed for its command and every value can be coerced
ValidInput ==
    /\ ~IsNull(args) /\ ~ShapeViolation(cmd_type, Val(args))
    /\ cmd_type = "GeoHash" =>
           \A i \in 1..Val(args).member_count :
               HasStringForm(Val(Val(args).members)[i])
    /\ cmd_type = "GeoAdd" =>
           \A i \in 1..Val(args).geo_args_count :
               HasStringForm(Val(Val(args).geo_args)[i])

\* key followed by the texts of the values, in input order
KeyThenValues(key, items) ==
    <<Val(key)>> \o [i \in 1..Len(items) |-> ZvalText(items[i])]

\* C11: for every valid Members input the builder returns exactly
\* 1 + member_count, slot 0 holding the key and slot i+1 the i-th member in
\* input order; for every valid Add input it returns exactly
\* 1 + 3 x tripletCount, the key in slot 0 and the longitude, latitude, member
\* values following in input order.
C11_MembersAddLayout ==
    /\ (pc = "built" /\ cmd_type = "GeoHash" /\ ValidInput
            /\ ~Did("alloc_refused"))
           => /\ arg_count = 1 + Val(args).member_count
              /\ Len(argv) = arg_count
              /\ Texts(argv) =
                     KeyThenValues(Val(args).key, Val(Val(args).members))
    /\ (pc = "built" /\ cmd_type = "GeoAdd" /\ ValidInput
            /\ ~Did("alloc_refused"))
           => /\ arg_count = 1 + 3 * (Val(args).geo_args_count \div 3)
              /\ Len(argv) = arg_count
              /\ Texts(argv) =
                     KeyThenValues(Val(args).key, Val(Val(args).geo_args))

C11_Witness ==
    /\ pc = "built" /\ cmd_type = "GeoHash" /\ ValidInput
    /\ ~Did("alloc_refused")
    /\ arg_count = 3
    /\ Texts(argv) = <<"k", "a", "7">>

\* C12: for every Distance input with key, source and destination present
\* the builder returns key, src, dst with length 3 when no unit is given and
\* key, src, dst, unit with length 4 when a unit is given; the unit slot
\* exists if and only if the unit field is present.
C12_DistLayout ==
    (pc = "built" /\ cmd_type = "GeoDist" /\ ~IsNull(args)
        /\ ~ShapeViolation("GeoDist", Val(args)) /\ ~Did("alloc_refused"))
        => LET r == Val(args)
               head == <<Val(r.key), Val(r.src_member), Val(r.dst_member)>>
           IN /\ Len(argv) = arg_count
              /\ (arg_count = 4) <=> ~IsNull(r.unit)
              /\ IF IsNull(r.unit)
                 THEN arg_count = 3 /\ Texts(argv) = head
                 ELSE arg_count = 4
                      /\ Texts(argv) = Append(head, Val(r.unit))

C12_Witness ==
    /\ pc = "built" /\ cmd_type = "GeoDist" /\ ~Did("alloc_refused")
    /\ arg_count = 4
    /\ Texts(argv) = <<"k", "Palermo", "Catania", "km">>

IsPrefix(p, q) == Len(p) <= Len(q) /\ \A i \in 1..Len(p) : q[i] = p[i]

\* BYRADIUS, the formatted radius, the unit
RadiusTexts(r) == <<"BYRADIUS", NatToStr(Val(r.by_radius)), Val(r.unit)>>

\* the origin clause of a record whose origin is a member name or a pair
OriginTexts(r) ==
    LET from == Val(r.from) IN
    IF from.t = "string" THEN <<"FROMMEMBER", from.s>>
    ELSE <<"FROMLONLAT", NatToStr(from.arr[1]), NatToStr(from.arr[2])>>

WellFormedOrigin(r) ==
    LET from == Val(r.from) IN
    from.t = "string" \/ (from.t = "array" /\ Len(from.arr) >= 2)

\* C13: for every Search input the builder accepts, the token list starts
\* with the key, followed at the fixed next position by FROMMEMBER and the
\* origin member name or FROMLONLAT and the formatted longitude and latitude,
\* followed by BYRADIUS, the formatted radius and the unit; an accepted input
\* never yields a list without an origin clause.
C13_SearchOriginClause ==
    (pc = "built" /\ cmd_type = "GeoSearch" /\ arg_count > 0)
        => LET r == Val(args) IN
           /\ WellFormedOrigin(r)
           /\ IsPrefix(<<Val(r.key)>> \o OriginTexts(r) \o RadiusTexts(r),
                       Texts(argv))

\* the slots that follow BYRADIUS <radius> <unit>
AfterRadius(slots) ==
    LET b == CHOOSE i \in 1..Len(slots) : slots[i] = Literal("BYRADIUS")
    IN [i \in 1..(Len(slots) - (b + 2)) |-> slots[b + 2 + i]]

OptIf(flag, toks) == IF flag THEN toks ELSE <<>>

\* the optional tokens an options bag calls for, in the documented order
WithTexts(o) ==
    OptIf(o.with_opts.withcoord, <<"WITHCOORD">>)
        \o OptIf(o.with_opts.withdist, <<"WITHDIST">>)
        \o OptIf(o.with_opts.withhash, <<"WITHHASH">>)

CountSortTexts(o) ==
    OptIf(o.count > 0, <<"COUNT", NatToStr(o.count)>>)
        \o OptIf(o.count > 0 /\ o.any, <<"ANY">>)
        \o OptIf(~IsNull(o.sort) /\ o.sort # Some(""), o.sort)

\* C14: in the Search builder's output, after the BYRADIUS clause, WITHCOORD,
\* WITHDIST and WITHHASH each appear iff their flag is set, COUNT and the
\* formatted count appear iff count > 0, ANY appears iff count > 0 and the any
\* flag is set, the sort token appears iff a non-empty sort is given, and the
\* tokens that appear are in the order WITHCOORD, WITHDIST, WITHHASH,
\* COUNT n, ANY, sort.
C14_SearchOptionalTokens ==
    (pc = "built" /\ cmd_type = "GeoSearch" /\ arg_count > 0)
        => LET o == Val(args).radius_opts IN
           /\ arg_count = Len(argv)
           /\ Texts(AfterRadius(argv)) = WithTexts(o) \o CountSortTexts(o)

C14_Witness ==
    /\ pc = "built" /\ cmd_type = "GeoSearch" /\ arg_count = 14
    /\ Texts(AfterRadius(argv)) =
           <<"WITHCOORD", "WITHDIST", "WITHHASH", "COUNT", "3", "ANY", "ASC">>

\* the Search builder's list for the origin, radius, unit, count, any and
\* sort of record r, with the WITH* flags w, when no allocation is refused
SearchListFor(r, w) ==
    prepare_geo_search_args(
        Some([r EXCEPT !.key = Some("k"), !.radius_opts.with_opts = w,
                       !.radius_opts.store_dist = FALSE]),
        Ctx(<<>>, 0, {}, <<>>)).argv

\* a Search list with its leading key replaced by dest, src and STOREDIST
\* appended when the record asks for it
AsStoreList(r, search) ==
    <<Val(r.dest), Val(r.src)>> \o Tail(Texts(search))
        \o OptIf(r.radius_opts.store_dist, <<"STOREDIST">>)

\* C15 as stated: for every accepted input the SearchStore list equals the
\* Search list for the same origin, radius, unit and options with the
\* leading key replaced by dest, src, plus a trailing STOREDIST iff the
\* store-distances flag is set; every optional token Search emits for a set
\* flag is emitted by SearchStore too.
C15_StoreEqualsSearch ==
    (pc = "built" /\ cmd_type = "GeoSearchStore" /\ arg_count > 0)
        => LET r == Val(args) IN
           Texts(argv) =
               AsStoreList(r, SearchListFor(r, r.radius_opts.with_opts))

\* C15 as amended: for every accepted input the SearchStore list equals the
\* Search list for the same origin, radius, unit, count, any and sort with
\* the three WITH* flags clear, the leading key replaced by dest, src, plus a
\* trailing STOREDIST iff the store-distances flag is set; SearchStore never
\* emits WITHCOORD, WITHDIST or WITHHASH, whatever the flags.
C15_StoreEqualsSearchWithoutWith ==
    (pc = "built" /\ cmd_type = "GeoSearchStore" /\ arg_count > 0)
        => LET r == Val(args) IN
           /\ arg_count = Len(argv)
           /\ Texts(argv) = AsStoreList(r, SearchListFor(r, ZeroWith))
           /\ \A i \in 1..Len(argv) :
                  argv[i].s \notin {"WITHCOORD", "WITHDIST", "WITHHASH"}

C15_Witness ==
    /\ pc = "built" /\ cmd_type = "GeoSearchStore" /\ arg_count = 12
    /\ Val(args).radius_opts.with_opts.withcoord
    /\ Val(args).radius_opts.store_dist
    /\ argv[12] = Literal("STOREDIST")

\* C16: for every input to the Search and SearchStore builders the returned
\* used length never exceeds the capacity of the argument arrays (15 for
\* Search, 16 for SearchStore), and for every builder the number of ledger
\* entries written never exceeds the ledger capacity the dispatcher allocated
\* (10 for Search/SearchStore, member_count for Members, geo_args_count for
\* Add); no slot at or beyond capacity is ever written.
C16_WithinCapacity ==
    (pc = "built" /\ ~IsNull(args))
        => /\ arg_count <= ArgSlots(cmd_type, args)
           /\ Len(argv) <= ArgSlots(cmd_type, args)
           /\ cmd_type # "GeoDist" =>
                  /\ allocated_count <= LedgerSlots(cmd_type, args)
                  /\ Len(ledger) <= LedgerSlots(cmd_type, args)

C16_Witness ==
    /\ pc = "built" /\ cmd_type = "GeoSearch"
    /\ arg_count = 14 /\ Len(argv) = 14
    /\ allocated_count = 4 /\ Len(ledger) = 4

\* the blocks behind the slots that point into scratch memory, in slot order
HeapOwned(slots) ==
    LET owned == SelectSeq(slots, LAMBDA t : t.own = "heap")
    IN [i \in 1..Len(owned) |-> owned[i].p]

\* C17: a builder puts a pointer into the ledger only if it (or the string
\* coercion on its behalf) freshly allocated it; pointers borrowed from the
\* caller's record and the static token literals never enter the ledger and
\* are never freed by a builder or the dispatcher.
C17_LedgerHoldsOnlyFreshStrings ==
    /\ allocated_count = Len(ledger)
    /\ \A i \in 1..Len(ledger) :
           /\ ledger[i] # NULL
           /\ ledger[i] \in BlocksOf(heap, "string")
           /\ \A j \in 1..Len(ledger) : ledger[j] = ledger[i] => j = i
    /\ \A i \in 1..Len(argv) :
           argv[i].own \in {"caller", "static"}
               => (argv[i].p = NULL /\ argv[i].p \notin LedgeredStrings)
    /\ arg_count > 0 => ledger = HeapOwned(argv)

C17_Witness ==
    /\ pc = "done" /\ cmd_type = "GeoHash" /\ arg_count = 3
    /\ Texts(argv) = <<"k", "a", "7">>
    /\ argv[1].own = "caller" /\ argv[2].own = "caller"
    /\ ledger = <<argv[3].p>>
    /\ heap[ledger[1]].frees = 1

\* C18: applying the cleanup twice to the same ledger, as happens when a
\* builder's failure cleanup is followed by the dispatcher's cleanup, does
\* not free any pointer a second time and does not crash.
C18_CleanupTwiceSafe ==
    (Did("build") /\ arg_count <= 0 /\ Did("free_arrays"))
        => /\ pc # "crashed"
           /\ ~DoubleFreed(heap)
           /\ ~DoubleFreed(FreeLedgered(heap))

\* C19: whenever any of the five result processors returns failure, the
\* output value has been set to a defined empty/default value (null, zero or
\* an empty list); it is never left unassigned or partially populated.
C19_FailureLeavesDefault ==
    (pc = "processed" /\ success = 0)
        => return_value \in {ZNull, ZLong(0), ZArray(<<>>)}

NumericProcessors == {"process_geo_int_result_async",
                      "process_geo_double_result_async"}

\* C20: the integer processor and the double processor both accept a String
\* response leaf and succeed, producing the number parsed from its text, and
\* each accepts every native numeric leaf kind (Integer and Float) rather
\* than failing on it.
C20_NumericLeavesAccepted ==
    (pc = "processed" /\ process_result \in NumericProcessors
        /\ ~IsNull(response))
        => LET r == Val(response) IN
           /\ r.response_type = "String" =>
                  /\ success = 1
                  /\ return_value.t \in {"long", "double"}
                  /\ return_value.n = atof(r.string_value)
           /\ r.response_type = "Int" =>
                  (success = 1 /\ return_value.n = r.int_value)
           /\ r.response_type = "Float" =>
                  (success = 1 /\ return_value.n = r.float_value)

\* C21: the integer processor and the double processor, given a response
\* whose kind is Null, set the output to null and return success; given an
\* absent (null pointer) response they return failure.
C21_NullAndAbsentResponse ==
    (pc = "processed" /\ process_result \in NumericProcessors)
        => /\ (~IsNull(response) /\ Val(response).response_type = "Null")
                  => (success = 1 /\ return_value = ZNull)
           /\ IsNull(response) => success = 0

C21_Witness ==
    /\ pc = "processed"
    /\ process_result = "process_geo_int_result_async"
    /\ response = Some(RNull)
    /\ success = 1 /\ return_value = ZNull

IsArrayOf(resp, kinds) ==
    /\ ~IsNull(resp) /\ Val(resp).response_type = "Array"
    /\ \A i \in 1..Len(Val(resp).array_value) :
           Val(resp).array_value[i].response_type \in kinds

\* C22: for every Array response whose elements are String or Null leaves
\* the hash-list processor returns success with an output list of the same
\* length, index i being null exactly when element i is Null and otherwise
\* the string of element i; for a non-Array response it returns failure with
\* an empty list.
C22_HashListPositional ==
    (pc = "processed" /\ process_result = "process_geo_hash_result_async"
        /\ ~IsNull(response))
        => LET elems == Val(response).array_value
               out == return_value.arr
           IN /\ IsArrayOf(response, {"String", "Null"}) =>
                     /\ success = 1
                     /\ return_value.t = "array"
                     /\ Len(out) = Len(elems)
                     /\ \A i \in 1..Len(elems) :
                            /\ out[i].key = None
                            /\ (out[i].val = ZNull)
                                   <=> (elems[i].response_type = "Null")
                            /\ elems[i].response_type = "String" =>
                                   out[i].val = ZString(elems[i].string_value)
              /\ Val(response).response_type # "Array" =>
                     (success = 0 /\ return_value = ZArray(<<>>))

C22_Witness ==
    /\ pc = "processed"
    /\ process_result = "process_geo_hash_result_async"
    /\ response = Some(RArray(<<RNull, RString(Palermo)>>))
    /\ success = 1
    /\ return_value = ZArray(<<Entry(None, ZNull),
                               Entry(None, ZString(Palermo))>>)

IsPositionElement(e, kinds) ==
    \/ e.response_type = "Null"
    \/ /\ e.response_type = "Array"
       /\ Len(e.array_value) = 2
       /\ \A j \in 1..2 : e.array_value[j].response_type \in kinds

IsNumber(z) == z.t \in {"long", "double"}

PositionPairs(kinds) ==
    (pc = "processed" /\ process_result = "process_geo_pos_result_async"
        /\ ~IsNull(response) /\ Val(response).response_type = "Array"
        /\ \A i \in 1..Len(Val(response).array_value) :
              IsPositionElement(Val(response).array_value[i], kinds))
        => LET elems == Val(response).array_value
               out == return_value.arr
           IN /\ success = 1
              /\ return_value.t = "array"
              /\ Len(out) = Len(elems)
              /\ \A i \in 1..Len(elems) :
                     /\ (out[i].val = ZNull)
                            <=> (elems[i].response_type = "Null")
                     /\ elems[i].response_type = "Array" =>
                            /\ out[i].val.t = "array"
                            /\ Len(out[i].val.arr) = 2
                            /\ \A j \in 1..2 : IsNumber(out[i].val.arr[j].val)

\* C23: for every Array response whose elements are each Null or a 2-element
\* Array of coordinate leaves, the position-list processor returns success
\* with an output of the same length, null at exactly the indices of Null
\* elements and at every other index a pair of exactly two numbers, whether
\* each coordinate leaf is a String or a native numeric leaf (Integer or
\* Float).
C23_PositionPairs == PositionPairs({"String", "Float", "Int"})

SearchProcessor == "process_geo_search_result_async"

AnyFlag(f) == f.withcoord \/ f.withdist \/ f.withhash

B2N(b) == IF b THEN 1 ELSE 0

\* where the reply carries each attribute when only the set flags take a place
HashPos(f) == 1 + B2N(f.withdist)
CoordPos(f) == 1 + B2N(f.withdist) + B2N(f.withhash)
FlagCount(f) == B2N(f.withdist) + B2N(f.withhash) + B2N(f.withcoord)

IsCoordLeaf(r) == r.response_type \in {"String", "Float"}

\* an attribute list carrying exactly the attributes the flags ask for
CarriesRequested(a, f) ==
    /\ a.response_type = "Array"
    /\ Len(a.array_value) = FlagCount(f)
    /\ f.withdist => IsCoordLeaf(a.array_value[1])
    /\ f.withhash => a.array_value[HashPos(f)].response_type = "Int"
    /\ f.withcoord =>
           LET c == a.array_value[CoordPos(f)]
           IN /\ c.response_type = "Array"
              /\ Len(c.array_value) = 2
              /\ \A j \in 1..2 : IsCoordLeaf(c.array_value[j])

WellFormedMember(e, f) ==
    /\ e.response_type = "Array"
    /\ Len(e.array_value) = 2
    /\ e.array_value[1].response_type = "String"
    /\ CarriesRequested(e.array_value[2], f)

NumberOf(r) ==
    IF r.response_type = "String" THEN ZDouble(atof(r.string_value))
    ELSE ZDouble(r.float_value)

\* the tuple the claim describes for one attribute list
ExpectedTuple(a, f) ==
    OptIf(f.withdist, <<Entry(None, NumberOf(a.array_value[1]))>>)
    \o OptIf(f.withhash,
             <<Entry(None, ZLong(a.array_value[HashPos(f)].int_value))>>)
    \o OptIf(f.withcoord,
             LET c == a.array_value[CoordPos(f)].array_value
             IN <<Entry(None, ZArray(<<Entry(None, NumberOf(c[1])),
                                       Entry(None, NumberOf(c[2]))>>))>>)

MemberName(e) == e.array_value[1].string_value

\* C24: when at least one of withDist, withHash, withCoord is set and each
\* response element is [memberName, attributes] carrying the requested
\* attributes, the search-result processor reads the attributes in the order
\* distance, hash, coordinates, one sub-element per set flag and none for an
\* unset flag, and outputs a mapping from each member name to a tuple with
\* exactly one entry per set flag in that order, members in response order
\* (a name that occurs again keeps its first place and takes the later tuple).
C24_SearchAttributeTuples ==
    (pc \in {"processed", "crashed"} /\ process_result = SearchProcessor
        /\ ~IsNull(response) /\ ~IsNull(search_data)
        /\ AnyFlag(Val(search_data))
        /\ Val(response).response_type = "Array"
        /\ \A i \in 1..Len(Val(response).array_value) :
              WellFormedMember(Val(response).array_value[i], Val(search_data)))
        => LET elems == Val(response).array_value
               f == Val(search_data)
               out == return_value.arr
               first == {i \in 1..Len(elems) :
                            \A j \in 1..(i - 1) :
                                MemberName(elems[j]) # MemberName(elems[i])}
               last == {i \in 1..Len(elems) :
                           \A j \in (i + 1)..Len(elems) :
                               MemberName(elems[j]) # MemberName(elems[i])}
           IN /\ pc = "processed"
              /\ success = 1
              /\ return_value.t = "array"
              /\ Len(out) = Cardinality(first)
              /\ \A i \in first :
                     out[Cardinality({j \in first : j <= i})].key
                         = Some(MemberName(elems[i]))
              /\ \A i \in last :
                     \E k \in 1..Len(out) :
                         /\ out[k].key = Some(MemberName(elems[i]))
                         /\ out[k].val = ZArray(ExpectedTuple(elems[i].array_value[2], f))
                         /\ Len(out[k].val.arr) = FlagCount(f)

C24_Witness ==
    /\ pc = "processed"
    /\ process_result = SearchProcessor
    /\ search_data = Some([withcoord |-> FALSE, withdist |-> TRUE,
                           withhash |-> TRUE])
    /\ response = Some(RArray(<<
           RArray(<<RString(Palermo), RArray(<<RFloat(190), RInt(5)>>)>>),
           RArray(<<RString(Catania), RArray(<<RFloat(190), RInt(5)>>)>>)>>))
    /\ success = 1
    /\ return_value = ZArray(<<
           Entry(Some(Palermo), ZArray(<<Entry(None, ZDouble(190)),
                                         Entry(None, ZLong(5))>>)),
           Entry(Some(Catania), ZArray(<<Entry(None, ZDouble(190)),
                                         Entry(None, ZLong(5))>>))>>)

\* the no-flag path, whose result is the generic conversion's
Delegated ==
    /\ ~IsNull(response) /\ ~IsNull(search_data)
    /\ ~AnyFlag(Val(search_data))

\* C25: for every response tree, malformed ones included (an element holding
\* only the member name, an attribute entry that is not an Array, a non-Array
\* top level, an absent response or side channel), the search-result
\* processor never reads an array index at or beyond the array's length, and
\* it ends in failure with empty output or in success, never in a crash.
C25_SearchNeverCrashes ==
    process_result = SearchProcessor
        => /\ pc # "crashed"
           /\ ~Did("read_past_end")
           /\ (pc = "processed" /\ ~Delegated)
                  => \/ success = 1
                     \/ success = 0 /\ return_value = ZArray(<<>>)

\* C26: when none of withCoord, withDist, withHash is set, the search-result
\* processor builds no per-member structure: it hands the whole response to
\* the generic tree-to-output conversion in non-associative mode and returns
\* exactly that conversion's status (and leaves the conversion's output).
C26_NoFlagsDelegates ==
    (pc \in {"processed", "crashed"} /\ process_result = SearchProcessor
        /\ Delegated)
        => /\ pc = "processed"
           /\ Count("converted") + Count("not_converted") = 1
           /\ ~Did("read_past_end")
           /\ Did("converted") =>
                  /\ success = 1
                  /\ return_value = ResponseToZval(Val(response))
           /\ Did("not_converted") => success = 0

C26_Witness ==
    /\ pc = "processed"
    /\ process_result = SearchProcessor
    /\ search_data = Some([withcoord |-> FALSE, withdist |-> FALSE,
                           withhash |-> FALSE])
    /\ response = Some(RArray(<<RString(Palermo), RString(Palermo)>>))
    /\ Did("converted")
    /\ success = 1
    /\ return_value = ZArray(<<Entry(None, ZString(Palermo)),
                               Entry(None, ZString(Palermo))>>)

ListProcessors == {"process_geo_hash_result_async",
                   "process_geo_pos_result_async",
                   SearchProcessor}

\* the per-element loop of a list processor runs on this call
DecodesElements ==
    /\ process_result \in ListProcessors
    /\ ~IsNull(response) /\ Val(response).response_type = "Array"
    /\ process_result = SearchProcessor
           => (~IsNull(search_data) /\ AnyFlag(Val(search_data)))

\* the elements of the response the running processor has an output entry for
Decodable(e) ==
    CASE process_result = "process_geo_hash_result_async" ->
             e.response_type \in {"String", "Null"}
      [] process_result = "process_geo_pos_result_async" ->
             \/ e.response_type = "Null"
             \/ e.response_type = "Array" /\ Len(e.array_value) = 2
      [] OTHER ->
             /\ e.response_type = "Array" /\ Len(e.array_value) > 0
             /\ e.array_value[1].response_type = "String"

\* one output entry per decodable element (per distinct name in a mapping)
EntriesExpected ==
    LET elems == Val(response).array_value
        idx == {i \in 1..Len(elems) : Decodable(elems[i])}
    IN IF process_result = SearchProcessor
       THEN Cardinality({MemberName(elems[i]) : i \in idx})
       ELSE Cardinality(idx)

\* C27: in the hash-list, position-list and search-result processors an
\* element of an Array response whose leaf kind is not the expected one is
\* skipped or zero-filled without aborting the decode: every remaining
\* element is still processed (each has its output entry) and the processor
\* returns success for any Array response.
C27_UnexpectedElementsTolerated ==
    (pc \in {"processed", "crashed"} /\ DecodesElements)
        => /\ pc = "processed"
           /\ success = 1
           /\ return_value.t = "array"
           /\ Len(return_value.arr) = EntriesExpected

\* C28: no builder and no path of execute_geo_generic_command modifies the
\* caller's Command Arguments record or the connection's batch-mode flag:
\* every step taken between entry and return leaves both as they were, so
\* both have the same value when the call returns as when it was entered.
C28_ArgsAndBatchModeUntouched ==
    [][pc # "idle" =>
          /\ is_in_batch_mode' = is_in_batch_mode
          /\ pc' # "idle" => args' = args]_vars

C28_Witness ==
    /\ pc = "done"
    /\ is_in_batch_mode
    /\ ~IsNull(args)
    /\ Did("build")
    /\ Did("free_arrays")
    /\ ret = 1

\* the blocks the executor is handed: both argument arrays and every string
\* the ledger holds
ExecutorBuffers ==
    {arg_values, arg_lens} \cup {ledger[i] : i \in 1..allocated_count}

FreeEvents == {"free_strings", "free_arrays"}

\* C29: in a non-batch call every argument buffer passed to the external
\* executor (argument-value array, argument-length array and every ledgered
\* string) is still allocated for the whole duration of the executor call;
\* the dispatcher frees them only after the executor has returned.
C29_BuffersLiveDuringExecute ==
    /\ pc \in {"execute", "executing"} =>
           /\ ~is_in_batch_mode
           /\ \A p \in ExecutorBuffers : p \in DOMAIN heap /\ heap[p].frees = 0
           /\ \A i \in 1..Len(events) : events[i] \notin FreeEvents
    /\ Did("execute") =>
           \A i, j \in 1..Len(events) :
               (events[i] = "execute" /\ events[j] \in FreeEvents)
                   => (i < j /\ result # NoResult)

C29_Witness ==
    /\ pc = "executing"
    /\ ~is_in_batch_mode
    /\ allocated_count >= 2
    /\ Cardinality(ExecutorBuffers) >= 4
    /\ \A p \in ExecutorBuffers : heap[p].frees = 0

\* no read of the record's flags comes after its efree
NoReadAfterFree ==
    \A i, j \in 1..Len(events) :
        (events[i] = "free_search_data" /\ events[j] = "read_flags") => j < i

\* C30: the search-result processor frees the side-channel flags record
\* exactly once on every path on which it is invoked (absent response, no
\* flags set, Array response, non-Array response), and never reads the
\* record's flags after freeing it.
C30_SideChannelFreedOnce ==
    (pc \in {"processed", "crashed"} /\ process_result = SearchProcessor
        /\ ~IsNull(search_data))
        => /\ search_data_frees = 1
           /\ Count("free_search_data") = 1
           /\ NoReadAfterFree

====
